---- MODULE Spec2Model ----
(***************************************************************************)
(* Dual-source market-data ingestion of kalshi-analysis: the snapshot      *)
(* store (market_snapshots), the REST poller (MarketPoller.run /           *)
(* poll_markets over KalshiClient._request), the push listener             *)
(* (MarketPoller.listen_websocket over KalshiWebSocketClient) and the gap  *)
(* filler (GapFiller over MarketRepository.detect_gaps).                   *)
(***************************************************************************)
EXTENDS Integers, Sequences, FiniteSets, TLC

\* ------------------------------------------------------------------ bounds
MaxBatch == 3    \* records in one fetched page of markets
MaxPolls == 2    \* poll cycles that reach the upstream API
MaxMsgs == 3     \* frames delivered by the push feed
MaxConns == 2    \* push connections that are attempted
MaxSeq == 3      \* small sequence numbers carried by ticker messages
MaxRows == 3     \* rows of a table handed to a query
MaxTime == 2     \* instants a timestamp may name

\* --------------------------------------------------------- program constants
request_stop_after_attempt == 3
connect_stop_after_attempt == 5
max_backfill == 100
kalshi_poll_interval_seconds == 5

\* ------------------------------------------------------------------ values
None == 0 - 1                    \* Python None / SQL NULL in an integer column
NoTicker == "<missing>"          \* dict.get("ticker") of a record without the key
Tickers == {"A", "B"}
POLL == "POLL"
WEBSOCKET == "WEBSOCKET"
BACKFILL == "BACKFILL"
DataSource == {POLL, WEBSOCKET, BACKFILL}

\* upstream quotes, in cents
Quotes == {50}

\* instants, as a timestamp column holds them
Instants == 1 .. MaxTime

\* sequence numbers the feed may put on a message: a few small ones, and one
\* far enough from them to open more than max_backfill gaps
FarSeq == MaxSeq + max_backfill
Seqs == (1 .. MaxSeq) \cup {FarSeq}

\* ------------------------------------------------------------------- state
VARIABLES
    market_snapshots,   \* committed rows of the table, in commit order
    running,            \* MarketPoller.running
    p_pc,               \* position of MarketPoller.run
    responses,          \* upstream answers to the attempts of the current _request
    p_outcome,          \* how the last _request ended
    markets,            \* the fetched page of records
    p_i,                \* index of the next record of the page
    p_session,          \* rows flushed in the poll session, not yet committed
    p_polls,            \* poll cycles started
    p_wait,             \* seconds of the asyncio.sleep the poller is in
    l_pc,               \* position of MarketPoller.listen_websocket
    ws,                 \* KalshiWebSocketClient.ws: is a connection open
    subscriptions,      \* KalshiWebSocketClient._subscriptions
    attempts,           \* handshake attempts made by the current connect()
    sent,               \* subscription messages sent on the current connection
    message,            \* the ticker message handed to _save_websocket_snapshot
    l_connects,         \* calls of connect()
    l_frames,           \* frames delivered by the feed
    was_active,         \* subscriptions that were active when the last connection ended
    last_frame,         \* what became of the previous frame of this connection
    l_error,            \* the last exception caught by the listener
    g_pc,               \* position of GapFiller.run_periodic_check
    tickers,            \* the tickers of the current sweep
    g_i,                \* index of the next ticker of the sweep
    gaps,               \* what detect_gaps returned to the last check_and_fill_gaps
    filled,             \* what the last check_and_fill_gaps returned
    g_error,            \* the exception the last query of the gap filler ended with
    latest,             \* the last call of get_latest_by_ticker and its result
    user_credentials,   \* the API key stored for the user, if any
    position_cache,     \* the cached positions of the user, by ticker
    a_pc,               \* position of a get_portfolio request of the user
    positions_data,     \* the positions that request has fetched from the exchange
    portfolio,          \* the last response of GET /account/portfolio
    a_session,          \* which of authenticate and logout succeeded last
    upstream            \* what the REST API and the push feed may produce

pvars == <<p_pc, responses, p_outcome, markets, p_i, p_session, p_polls, p_wait>>
lvars == <<l_pc, ws, subscriptions, attempts, sent, message, l_connects, l_frames,
           was_active, last_frame, l_error>>
gvars == <<g_pc, tickers, g_i, gaps, filled, g_error>>
avars == <<user_credentials, position_cache, a_pc, positions_data, portfolio, a_session>>
vars == <<market_snapshots, running, upstream, latest, pvars, lvars, gvars, avars>>

\* ------------------------------------------------------------ snapshot store
\* A row of market_snapshots (id, no_price, volume, raw_data and created_at
\* carry no constraint that the ingestion paths can violate and are left out).
MarketSnapshot(ticker, timestamp, source, sequence, yes_price) ==
    [ticker |-> ticker, timestamp |-> timestamp, source |-> source,
     sequence |-> sequence, yes_price |-> yes_price]

\* nullable=False columns
NotNullOk(row) ==
    /\ row.ticker # NoTicker
    /\ row.yes_price # None

\* a plausible slip: the index is created without unique=True
UniqueOk_not_unique(rows, row) == TRUE

\* a plausible slip: the index is declared NULLS NOT DISTINCT
UniqueOk_nulls_not_distinct(rows, row) ==
    row.source = WEBSOCKET =>
        ~ \E i \in DOMAIN rows :
            /\ rows[i].source = WEBSOCKET
            /\ rows[i].ticker = row.ticker
            /\ rows[i].sequence = row.sequence

\* ix_ticker_source_sequence: unique on (ticker, source, sequence), partial on
\* source = WEBSOCKET; a NULL sequence never equals another NULL.
UniqueOk(rows, row) ==
    (row.source = WEBSOCKET /\ row.sequence # None) =>
        ~ \E i \in DOMAIN rows :
            /\ rows[i].source = WEBSOCKET
            /\ rows[i].ticker = row.ticker
            /\ rows[i].sequence = row.sequence

\* BaseRepository.create: add + flush. The INSERT is checked against the
\* committed rows and the rows already flushed in the same session.
create(session, row) ==
    IF NotNullOk(row) /\ UniqueOk(market_snapshots \o session, row)
    THEN "ok"
    ELSE "IntegrityError"

\* ------------------------------------------------- KalshiClient._request
Responses == {"200", "500", "timeout"}

\* exception classes and their bases
Bases(cls) ==
    CASE cls = "KalshiAPIError" -> {"KalshiAPIError", "KalshiAnalysisException", "Exception"}
      [] cls = "HTTPStatusError" -> {"HTTPStatusError", "HTTPError", "Exception"}
      [] cls = "RequestError" -> {"RequestError", "HTTPError", "Exception"}
      [] cls = "ConnectionClosed" -> {"ConnectionClosed", "WebSocketException", "Exception"}
      [] cls = "JSONDecodeError" -> {"JSONDecodeError", "ValueError", "Exception"}
      [] cls = "InvalidOperation" -> {"InvalidOperation", "ArithmeticError", "Exception"}
      [] cls = "IntegrityError" -> {"IntegrityError", "SQLAlchemyError", "Exception"}
      [] cls = "OperationalError" -> {"OperationalError", "SQLAlchemyError", "Exception"}
      [] OTHER -> {cls, "Exception"}

\* a plausible slip: the handlers of the loops name the library's errors only
except_library_errors(exc) ==
    Bases(exc) \cap {"KalshiAnalysisException", "WebSocketException", "SQLAlchemyError"} # {}

\* `except Exception`: does the handler catch an exception of this class
except_Exception(exc) == "Exception" \in Bases(exc)

\* what client.request + raise_for_status raise for an upstream answer
httpx_raises(resp) ==
    CASE resp = "500" -> "HTTPStatusError"
      [] resp = "timeout" -> "RequestError"
      [] OTHER -> "none"

\* the body of _request: both httpx errors leave it as KalshiAPIError
request_body_raises(resp) ==
    IF httpx_raises(resp) \in {"HTTPStatusError", "RequestError"}
    THEN "KalshiAPIError"
    ELSE "none"

\* retry=retry_if_exception_type(httpx.HTTPStatusError), applied by tenacity
\* to the exception that leaves the body
request_retry(exc) == "HTTPStatusError" \in Bases(exc)

\* ---------------------------------------------------- fetched page of markets
\* a record of the page: its "ticker" (possibly empty or absent) and "yes_bid"
Records ==
    [ticker : Tickers, yes_bid : Quotes]
        \cup [ticker : {"A"}, yes_bid : {None}]
        \cup [ticker : {"", NoTicker}, yes_bid : Quotes]

RECURSIVE SeqsUpTo(_, _)
SeqsUpTo(S, n) ==
    IF n = 0 THEN {<<>>}
    ELSE LET shorter == SeqsUpTo(S, n - 1)
         IN shorter \cup {Append(q, x) : q \in {r \in shorter : Len(r) = n - 1}, x \in S}

Pages == SeqsUpTo(Records, MaxBatch)

\* a plausible slip: `if ticker is None`, which lets an empty ticker through
not_ticker_none_only(ticker) == ticker = NoTicker

\* `if not ticker`
not_ticker(ticker) == ticker = NoTicker \/ ticker = ""

\* a plausible slip: the poller numbers its rows from a default of 0
poll_row_numbered(market, now) ==
    MarketSnapshot(market.ticker, now, POLL, 0,
                   IF market.yes_bid = None THEN None ELSE market.yes_bid * 100)

\* the row poll_markets builds for a record at the instant utcnow() returns
\* (yes_price NUMERIC(10,2), in hundredths of the stored unit)
poll_row(market, now) ==
    MarketSnapshot(market.ticker, now, POLL, None,
                   IF market.yes_bid = None THEN None ELSE market.yes_bid * 100)

\* ------------------------------------------------------------- MarketPoller
\* entry of poll_markets: KalshiClient() and the first await of get_markets
begin_poll ==
    /\ p_pc' = "request"
    /\ responses' = <<>>
    /\ p_outcome' = "pending"
    /\ markets' = <<>>
    /\ p_i' = 0
    /\ p_session' = <<>>
    /\ p_polls' = p_polls + 1
    /\ p_wait' = 0

\* a plausible slip: the poller backs off after a cycle that failed
poll_wait_backoff(exc) ==
    IF exc = "none" THEN kalshi_poll_interval_seconds ELSE 2 * kalshi_poll_interval_seconds

\* the argument of asyncio.sleep in run(), after a cycle that ended with this
\* exception ("none" when it ended without one)
poll_wait(exc) == kalshi_poll_interval_seconds

\* the end of a cycle: an exception meets `except Exception` of poll_markets
\* (and of run), then run() goes to asyncio.sleep
end_cycle(exc) ==
    IF exc = "none" \/ except_Exception(exc)
    THEN /\ p_pc' = "sleep"
         /\ p_wait' = poll_wait(exc)
    ELSE /\ p_pc' = "raised"
         /\ p_wait' = 0

\* MarketPoller.run up to its first suspension
run ==
    /\ p_pc = "init"
    /\ running' = TRUE
    /\ begin_poll
    /\ UNCHANGED <<market_snapshots, upstream, lvars, gvars, latest, avars>>

\* MarketPoller.stop
stop ==
    /\ running
    /\ running' = FALSE
    /\ UNCHANGED <<market_snapshots, upstream, pvars, lvars, gvars, latest, avars>>

\* one attempt of KalshiClient._request under tenacity (stop_after_attempt,
\* retry_if_exception_type, reraise=True), as called by get_markets from
\* poll_markets; an exception that leaves it is caught by poll_markets
request ==
    /\ p_pc = "request"
    /\ \E resp \in upstream.responses, page \in upstream.pages :
        LET exc == request_body_raises(resp)
            n == Len(responses) + 1
        IN /\ responses' = Append(responses, resp)
           /\ IF exc = "none"
              THEN /\ p_outcome' = "returned"
                   /\ markets' = page
                   /\ p_i' = 1
                   /\ p_pc' = "batch"
                   /\ UNCHANGED p_wait
              ELSE /\ page = <<>>
                   /\ UNCHANGED <<markets, p_i>>
                   /\ IF request_retry(exc) /\ n < request_stop_after_attempt
                      THEN UNCHANGED <<p_pc, p_outcome, p_wait>>
                      ELSE /\ p_outcome' = exc
                           /\ end_cycle(exc)
    /\ UNCHANGED <<market_snapshots, running, p_session, p_polls, lvars, gvars, upstream, latest, avars>>

\* a plausible slip: the commit is inside the loop, after every create_snapshot
poll_record_autocommit ==
    /\ p_pc = "batch"
    /\ p_i <= Len(markets)
    /\ \E now \in upstream.clock :
       LET market == markets[p_i]
           outcome == create(<<>>, poll_row(market, now))
       IN IF not_ticker(market.ticker)
          THEN /\ p_i' = p_i + 1
               /\ UNCHANGED <<p_pc, market_snapshots, p_wait>>
          ELSE IF outcome = "ok"
               THEN /\ market_snapshots' = Append(market_snapshots, poll_row(market, now))
                    /\ p_i' = p_i + 1
                    /\ UNCHANGED <<p_pc, p_wait>>
               ELSE /\ end_cycle(outcome)
                    /\ UNCHANGED <<p_i, market_snapshots>>
    /\ UNCHANGED <<running, responses, p_outcome, p_polls, p_session, markets, lvars, gvars,
                   upstream, latest, avars>>

\* one iteration of `for market in markets` in poll_markets; an exception of
\* create_snapshot leaves the session block without commit and is caught by
\* the `except Exception` around the whole batch
poll_record ==
    /\ p_pc = "batch"
    /\ p_i <= Len(markets)
    /\ \E now \in upstream.clock :
       LET market == markets[p_i]
           outcome == create(p_session, poll_row(market, now))
       IN IF not_ticker(market.ticker)
          THEN /\ p_i' = p_i + 1
               /\ UNCHANGED <<p_pc, p_session, markets, p_wait>>
          ELSE IF outcome = "ok"
               THEN /\ p_session' = Append(p_session, poll_row(market, now))
                    /\ p_i' = p_i + 1
                    /\ UNCHANGED <<p_pc, markets, p_wait>>
               ELSE /\ p_session' = <<>>
                    /\ end_cycle(outcome)
                    /\ UNCHANGED <<p_i, markets>>
    /\ UNCHANGED <<market_snapshots, running, responses, p_outcome, p_polls, lvars, gvars, upstream, latest, avars>>

\* a plausible slip: the poller keeps one POLL row per ticker and the commit
\* replaces the row it has for a ticker of the page
poll_commit_upsert ==
    /\ p_pc = "batch"
    /\ p_i > Len(markets)
    /\ LET replaced(row) == /\ row.source = POLL
                            /\ \E k \in DOMAIN p_session : p_session[k].ticker = row.ticker
           kept(row) == ~ replaced(row)
       IN market_snapshots' = SelectSeq(market_snapshots, kept) \o p_session
    /\ p_session' = <<>>
    /\ end_cycle("none")
    /\ UNCHANGED <<running, responses, p_outcome, markets, p_i, p_polls, lvars, gvars, upstream, latest, avars>>

\* `await session.commit()` after the last record
poll_commit ==
    /\ p_pc = "batch"
    /\ p_i > Len(markets)
    /\ market_snapshots' = market_snapshots \o p_session
    /\ p_session' = <<>>
    /\ end_cycle("none")
    /\ UNCHANGED <<running, responses, p_outcome, markets, p_i, p_polls, lvars, gvars, upstream, latest, avars>>

\* a plausible slip: the loop of run() is `while True`
poll_sleep_ignores_stop ==
    /\ p_pc = "sleep"
    /\ p_polls < MaxPolls
    /\ begin_poll
    /\ UNCHANGED <<market_snapshots, running, lvars, gvars, upstream, latest, avars>>

\* asyncio.sleep(kalshi_poll_interval_seconds) returns and `while self.running`
\* is tested again
poll_sleep ==
    /\ p_pc = "sleep"
    /\ IF running
       THEN /\ p_polls < MaxPolls
            /\ begin_poll
       ELSE /\ p_pc' = "done"
            /\ p_wait' = 0
            /\ UNCHANGED <<responses, p_outcome, markets, p_i, p_session, p_polls>>
    /\ UNCHANGED <<market_snapshots, running, lvars, gvars, upstream, latest, avars>>

\* ------------------------------------------------- KalshiWebSocketClient
\* the subscription message of listen_websocket
TickerChannel == "ticker:*"

\* message.get("timestamp"): absent, an ISO text (of instant 1), another text
NoTimestamp == "<missing>"
IsoTime == "1970-01-01T00:00:01Z"
NotIsoTime == "yesterday"

\* a "yes_price" whose str() is not a decimal literal
NotDecimal == 0 - 2

NoMessage == [type |-> "none", ticker |-> NoTicker, seq |-> None,
              timestamp |-> NoTimestamp, yes_price |-> 0]

\* frames of the feed: text that json.loads rejects, text that decodes to
\* something other than an object, or a decoded message with its "type",
\* "ticker" (possibly absent), "seq" (possibly absent), "timestamp" and
\* "yes_price"
TickerMessages == [type : {"ticker"}, ticker : Tickers \cup {NoTicker}, seq : Seqs \cup {None},
                   timestamp : {IsoTime}, yes_price : Quotes]
UntimedMessages == [type : {"ticker"}, ticker : {"A"}, seq : {2},
                    timestamp : {NoTimestamp}, yes_price : Quotes]
MalformedMessages ==
    [type : {"ticker"}, ticker : {"A"}, seq : {1}, timestamp : {NotIsoTime}, yes_price : Quotes]
        \cup [type : {"ticker"}, ticker : {"A"}, seq : {1}, timestamp : {IsoTime},
              yes_price : {NotDecimal}]
OtherMessages == [type : {"subscribed"}, ticker : {NoTicker}, seq : {None},
                  timestamp : {NoTimestamp}, yes_price : {0}]
NonObjects == [type : {"<not an object>"}, ticker : {NoTicker}, seq : {None},
               timestamp : {NoTimestamp}, yes_price : {0}]
Undecodable == [type : {"<not json>"}, ticker : {NoTicker}, seq : {None},
                timestamp : {NoTimestamp}, yes_price : {0}]
Frames == Undecodable \cup NonObjects \cup TickerMessages \cup UntimedMessages
            \cup MalformedMessages \cup OtherMessages

\* json.loads(raw_message): does it raise JSONDecodeError
JSONDecodeError(frame) == frame \in Undecodable

\* message.get("type") in listen_websocket: AttributeError unless the decoded
\* value is a dict
get_type_raises(frame) == IF frame \in NonObjects THEN "AttributeError" ELSE "none"

\* outcomes of websockets.connect
Handshakes == {"ok", "WebSocketException", "OSError"}

\* the exception classes connect() is retried on
connect_retry(exc) == exc \in {"ConnectionClosed", "WebSocketException"}

\* a plausible slip: only the price is validated before the append, the
\* timestamp string is handed to the store as it came
parse_raises_price_only(msg) ==
    IF msg.yes_price = NotDecimal THEN "InvalidOperation" ELSE "none"

\* what the parsing in _save_websocket_snapshot raises: Decimal(str(yes_price))
\* first, then datetime.fromisoformat of a timestamp that is present
parse_raises(msg) ==
    IF msg.yes_price = NotDecimal THEN "InvalidOperation"
    ELSE IF msg.timestamp \notin {NoTimestamp, IsoTime} THEN "ValueError"
    ELSE "none"

\* the row _save_websocket_snapshot builds: Decimal(str(yes_price)) / 100 of a
\* quote in cents, kept in hundredths; the instant the message names, or the
\* one utcnow() returns
websocket_row(msg, now) ==
    MarketSnapshot(msg.ticker, IF msg.timestamp = NoTimestamp THEN now ELSE 1,
                   WEBSOCKET, msg.seq, msg.yes_price)

\* `while self.running` of listen_websocket, then KalshiWebSocketClient() and
\* the entry of connect() through __aenter__
listen_loop ==
    IF running
    THEN /\ l_connects < MaxConns
         /\ l_pc' = "connect"
         /\ subscriptions' = <<>>
         /\ attempts' = 0
         /\ sent' = <<>>
         /\ l_connects' = l_connects + 1
         /\ last_frame' = "none"
    ELSE /\ l_pc' = "done"
         /\ UNCHANGED <<subscriptions, attempts, sent, l_connects, last_frame>>

\* a plausible slip: the first step of the listener may come before that of
\* run(), as when main() hands listen_websocket() to gather first
listen_websocket_any_order ==
    /\ l_pc = "init"
    /\ listen_loop
    /\ UNCHANGED <<market_snapshots, running, upstream, latest, avars, pvars, gvars, ws, message,
                   l_frames, was_active, l_error>>

\* MarketPoller.listen_websocket up to its first suspension. asyncio.gather
\* in main() makes the task of run() first and that of listen_websocket()
\* second, and the event loop runs the first step of each in that order:
\* run() has set self.running and reached its first await before the
\* listener tests the flag
listen_websocket ==
    /\ l_pc = "init"
    /\ p_pc # "init"
    /\ listen_loop
    /\ UNCHANGED <<market_snapshots, running, upstream, latest, avars, pvars, gvars, ws, message,
                   l_frames, was_active, l_error>>

\* an exception leaves the body of `async with`: __aexit__ closes the
\* connection, `except Exception` of listen_websocket logs and sleeps
loop_raises(exc) ==
    /\ ws' = FALSE
    /\ was_active' = subscriptions
    /\ l_error' = exc
    /\ l_pc' = IF except_Exception(exc) THEN "pause" ELSE "raised"

\* a plausible slip: no stop= is given to @retry, and a handshake that fails
\* with a WebSocket error is attempted again without end
connect_without_stop ==
    /\ l_pc = "connect"
    /\ \E outcome \in upstream.handshakes :
        /\ attempts' = attempts + 1
        /\ IF outcome = "ok"
           THEN /\ ws' = TRUE
                /\ sent' = subscriptions
                /\ l_pc' = "subscribe"
                /\ UNCHANGED l_error
           ELSE /\ UNCHANGED <<ws, sent>>
                /\ IF connect_retry(outcome)
                   THEN UNCHANGED <<l_pc, l_error>>
                   ELSE /\ l_error' = outcome
                        /\ l_pc' = IF except_Exception(outcome) THEN "pause" ELSE "raised"
    /\ UNCHANGED <<market_snapshots, running, upstream, latest, avars, pvars, gvars,
                   subscriptions, message, l_connects, l_frames, was_active, last_frame>>

\* one attempt of KalshiWebSocketClient.connect under tenacity
\* (stop_after_attempt, retry_if_exception_type); on success the recorded
\* subscriptions are sent again; what leaves connect() is caught by
\* listen_websocket, which then sleeps
connect ==
    /\ l_pc = "connect"
    /\ \E outcome \in upstream.handshakes :
        /\ attempts' = attempts + 1
        /\ IF outcome = "ok"
           THEN /\ ws' = TRUE
                /\ sent' = subscriptions
                /\ l_pc' = "subscribe"
                /\ UNCHANGED l_error
           ELSE /\ UNCHANGED <<ws, sent>>
                /\ IF connect_retry(outcome) /\ attempts + 1 < connect_stop_after_attempt
                   THEN UNCHANGED <<l_pc, l_error>>
                   ELSE LET exc == IF connect_retry(outcome) THEN "RetryError" ELSE outcome
                        IN /\ l_error' = exc
                           /\ l_pc' = IF except_Exception(exc) THEN "pause" ELSE "raised"
    /\ UNCHANGED <<market_snapshots, running, upstream, latest, avars, pvars, gvars, subscriptions,
                   message, l_connects, l_frames, was_active, last_frame>>

\* a plausible slip: listen_websocket subscribes on its first connection only
\* and leaves later connections to the replay in connect()
subscribe_first_only ==
    /\ l_pc = "subscribe"
    /\ ws
    /\ sent' = IF l_connects = 1 THEN Append(sent, TickerChannel) ELSE sent
    /\ subscriptions' = Append(subscriptions, TickerChannel)
    /\ l_pc' = "listen"
    /\ UNCHANGED <<market_snapshots, running, upstream, latest, avars, pvars, gvars, ws, attempts,
                   message, l_connects, l_frames, was_active, last_frame, l_error>>

\* KalshiWebSocketClient.subscribe as called by listen_websocket
subscribe ==
    /\ l_pc = "subscribe"
    /\ ws
    /\ sent' = Append(sent, TickerChannel)
    /\ subscriptions' = Append(subscriptions, TickerChannel)
    /\ l_pc' = "listen"
    /\ UNCHANGED <<market_snapshots, running, upstream, latest, avars, pvars, gvars, ws, attempts,
                   message, l_connects, l_frames, was_active, last_frame, l_error>>

\* a plausible slip: the decode error is not caught in listen() and ends the
\* message loop like a transport error
json_error_raised ==
    /\ last_frame' = "undecodable"
    /\ loop_raises("JSONDecodeError")
    /\ UNCHANGED message

\* `except json.JSONDecodeError: log; continue` of listen()
json_error_skipped ==
    /\ last_frame' = "undecodable"
    /\ l_error' = "JSONDecodeError"
    /\ UNCHANGED <<l_pc, message, ws, was_active>>

\* a plausible slip: the message is handed to a task of its own
\* (asyncio.create_task) and the loop takes the next frame while the save of
\* the previous message is still in flight
listen_without_await ==
    /\ l_pc \in {"listen", "save"}
    /\ ws
    /\ l_frames < MaxMsgs
    /\ l_frames' = l_frames + 1
    /\ \E frame \in upstream.frames :
        /\ frame.type = "ticker"
        /\ l_pc' = "save"
        /\ message' = frame
        /\ UNCHANGED <<last_frame, l_error, ws, was_active>>
    /\ UNCHANGED <<market_snapshots, running, upstream, latest, avars, pvars, gvars, subscriptions,
                   attempts, sent, l_connects>>

\* one iteration of KalshiWebSocketClient.listen and of the `async for` of
\* listen_websocket, up to the call of _save_websocket_snapshot
listen ==
    /\ l_pc = "listen"
    /\ ws
    /\ l_frames < MaxMsgs
    /\ l_frames' = l_frames + 1
    /\ \E frame \in upstream.frames :
        IF JSONDecodeError(frame)
        THEN json_error_skipped
        ELSE IF get_type_raises(frame) # "none"
             THEN /\ last_frame' = "raised"
                  /\ loop_raises(get_type_raises(frame))
                  /\ UNCHANGED message
             ELSE IF frame.type = "ticker"
                  THEN /\ l_pc' = "save"
                       /\ message' = frame
                       /\ UNCHANGED <<last_frame, l_error, ws, was_active>>
                  ELSE /\ last_frame' = "ignored"
                       /\ UNCHANGED <<l_pc, message, l_error, ws, was_active>>
    /\ UNCHANGED <<market_snapshots, running, upstream, latest, avars, pvars, gvars, subscriptions,
                   attempts, sent, l_connects>>

\* a plausible slip: _save_websocket_snapshot has no handler of its own and
\* the exception reaches the message loop
save_error_raised(exc, what) ==
    /\ last_frame' = what
    /\ loop_raises(exc)
    /\ UNCHANGED market_snapshots

\* `except Exception as e: logger.error(...)` of _save_websocket_snapshot
save_error_logged(exc, what) ==
    IF except_Exception(exc)
    THEN /\ last_frame' = what
         /\ l_error' = exc
         /\ l_pc' = "listen"
         /\ UNCHANGED <<market_snapshots, ws, was_active>>
    ELSE save_error_raised(exc, what)

\* MarketPoller._save_websocket_snapshot: the ticker test, the parsing, one
\* session with one create and one commit; every exception is caught inside
save_websocket_snapshot ==
    /\ l_pc = "save"
    /\ \E now \in upstream.clock :
        LET row == websocket_row(message, now)
        IN IF not_ticker(message.ticker)
           THEN /\ last_frame' = "no ticker"
                /\ l_pc' = "listen"
                /\ UNCHANGED <<market_snapshots, l_error, ws, was_active>>
           ELSE IF parse_raises(message) # "none"
                THEN save_error_logged(parse_raises(message), "dropped")
                ELSE IF create(<<>>, row) = "ok"
                     THEN /\ market_snapshots' = Append(market_snapshots, row)
                          /\ last_frame' = "saved"
                          /\ l_pc' = "listen"
                          /\ UNCHANGED <<l_error, ws, was_active>>
                     ELSE save_error_logged(create(<<>>, row), "failed")
    /\ message' = NoMessage
    /\ UNCHANGED <<running, upstream, latest, avars, pvars, gvars, subscriptions, attempts, sent,
                   l_connects, l_frames>>

\* the connection is lost while listen() waits for a frame: ConnectionClosed
\* leaves listen(), __aexit__ closes, listen_websocket catches and sleeps
connection_closed ==
    /\ l_pc = "listen"
    /\ ws
    /\ loop_raises("ConnectionClosed")
    /\ UNCHANGED <<market_snapshots, running, upstream, latest, avars, pvars, gvars, subscriptions,
                   attempts, sent, message, l_connects, l_frames, last_frame>>

\* the peer closes normally: the iteration over self.ws ends without an
\* exception, __aexit__ closes, and `while self.running` is tested at once
closed_ok ==
    /\ l_pc = "listen"
    /\ ws
    /\ ws' = FALSE
    /\ was_active' = subscriptions
    /\ listen_loop
    /\ UNCHANGED <<market_snapshots, running, upstream, latest, avars, pvars, gvars, message,
                   l_frames, l_error>>

\* asyncio.sleep(5) of listen_websocket returns
listen_pause ==
    /\ l_pc = "pause"
    /\ listen_loop
    /\ UNCHANGED <<market_snapshots, running, upstream, latest, avars, pvars, gvars, ws, message,
                   l_frames, was_active, l_error>>

ListenerNext ==
    \/ listen_websocket
    \/ connect
    \/ subscribe
    \/ listen
    \/ save_websocket_snapshot
    \/ connection_closed
    \/ closed_ok
    \/ listen_pause

\* ------------------------------------------------ MarketRepository.detect_gaps
\* a plausible slip: the query of detect_gaps has no filter on the source
gap_query_any_source(rows, ticker) ==
    {i \in DOMAIN rows :
        /\ rows[i].ticker = ticker
        /\ rows[i].sequence # None}

\* the rows selected by the query of detect_gaps
gap_query(rows, ticker) ==
    {i \in DOMAIN rows :
        /\ rows[i].ticker = ticker
        /\ rows[i].source = WEBSOCKET
        /\ rows[i].sequence # None}

\* a plausible slip: the query has no ORDER BY and returns rows in insertion order
RECURSIVE order_by_insertion(_, _)
order_by_insertion(rows, idx) ==
    IF idx = {} THEN <<>>
    ELSE LET i == CHOOSE i \in idx : \A j \in idx : i <= j
         IN <<rows[i].sequence>> \o order_by_insertion(rows, idx \ {i})

\* ORDER BY sequence over the selected rows
RECURSIVE order_by_sequence(_, _)
order_by_sequence(rows, idx) ==
    IF idx = {} THEN <<>>
    ELSE LET i == CHOOSE i \in idx : \A j \in idx : rows[i].sequence <= rows[j].sequence
         IN <<rows[i].sequence>> \o order_by_sequence(rows, idx \ {i})

\* range(start, end): start, start + 1, ..., end - 1
range(start, end) == [k \in 1 .. (end - start) |-> start + k - 1]

\* fewer than this many sequences mean no gaps
min_sequences == 2

\* MarketRepository.detect_gaps over the rows visible to its session
detect_gaps_in(rows, ticker) ==
    LET sequences == order_by_sequence(rows, gap_query(rows, ticker))
    IN IF Len(sequences) < min_sequences THEN <<>>
       ELSE LET min_seq == sequences[1]
                max_seq == sequences[Len(sequences)]
                sequence_set == {sequences[k] : k \in DOMAIN sequences}
                \* for seq in range(min_seq, max_seq + 1):
                \*     if seq not in sequence_set: gaps.append(seq)
                not_in_set(seq) == seq \notin sequence_set
            IN SelectSeq(range(min_seq, max_seq + 1), not_in_set)

detect_gaps(ticker) == detect_gaps_in(market_snapshots, ticker)

\* ---------------------------------------------------------------- GapFiller
\* SELECT DISTINCT ticker WHERE source = WEBSOCKET
websocket_tickers == {market_snapshots[i].ticker :
                        i \in {j \in DOMAIN market_snapshots : market_snapshots[j].source = WEBSOCKET}}

\* the orders in which a result set may be returned
Orderings(S) == {q \in SeqsUpTo(S, Cardinality(S)) :
                    Len(q) = Cardinality(S) /\ {q[k] : k \in DOMAIN q} = S}

\* GapFiller._check_all_tickers up to its loop: run_periodic_check starts a
\* sweep, at first and after every asyncio.sleep(interval_seconds)
\* the query of the tickers may fail: what session.execute raises is caught by
\* `except Exception` of run_periodic_check, which then sleeps
check_all_tickers ==
    /\ g_pc \in {"init", "sleep"}
    /\ \E outcome \in upstream.database :
        IF outcome = "ok"
        THEN /\ \E order \in Orderings(websocket_tickers) : tickers' = order
             /\ g_i' = 1
             /\ g_pc' = "sweep"
             /\ g_error' = "none"
        ELSE /\ g_error' = outcome
             /\ g_pc' = IF except_Exception(outcome) THEN "sleep" ELSE "raised"
             /\ UNCHANGED <<tickers, g_i>>
    /\ UNCHANGED <<market_snapshots, running, upstream, latest, avars, pvars, lvars, gaps, filled>>

\* a plausible slip: every gap of the capped prefix is written as a BACKFILL
\* row made up from nothing, and counted as filled
check_and_fill_gaps_fabricates ==
    /\ g_pc = "sweep"
    /\ g_i <= Len(tickers)
    /\ LET found == detect_gaps(tickers[g_i])
           gaps_to_fill == SubSeq(found, 1, IF Len(found) < max_backfill
                                            THEN Len(found) ELSE max_backfill)
       IN /\ gaps' = found
          /\ filled' = Len(gaps_to_fill)
          /\ market_snapshots' = market_snapshots \o
                [k \in DOMAIN gaps_to_fill |->
                    MarketSnapshot(tickers[g_i], 1, BACKFILL, gaps_to_fill[k], 0)]
    /\ g_i' = g_i + 1
    /\ g_error' = "none"
    /\ UNCHANGED <<running, upstream, latest, avars, pvars, lvars, g_pc, tickers>>

\* a plausible change: the sweep repairs the first gap by writing the missing
\* sequence number as a WEBSOCKET row
check_and_fill_gaps_repairs ==
    /\ g_pc = "sweep"
    /\ g_i <= Len(tickers)
    /\ LET found == detect_gaps(tickers[g_i])
       IN /\ gaps' = found
          /\ filled' = IF found = <<>> THEN 0 ELSE 1
          /\ market_snapshots' =
                IF found = <<>> THEN market_snapshots
                ELSE Append(market_snapshots,
                            MarketSnapshot(tickers[g_i], 1, WEBSOCKET, found[1], 0))
    /\ g_i' = g_i + 1
    /\ g_error' = "none"
    /\ UNCHANGED <<running, upstream, latest, avars, pvars, lvars, g_pc, tickers>>

\* GapFiller.check_and_fill_gaps for the next ticker of the sweep: detect,
\* take gaps[:max_backfill], log each as not recoverable, commit, return 0
check_and_fill_gaps ==
    /\ g_pc = "sweep"
    /\ g_i <= Len(tickers)
    /\ LET found == detect_gaps(tickers[g_i])
           gaps_to_fill == SubSeq(found, 1, IF Len(found) < max_backfill
                                            THEN Len(found) ELSE max_backfill)
       IN /\ gaps' = found
          /\ filled' = 0
          /\ market_snapshots' = market_snapshots
    /\ g_i' = g_i + 1
    /\ g_error' = "none"
    /\ UNCHANGED <<running, upstream, latest, avars, pvars, lvars, g_pc, tickers>>

\* a plausible slip: the try is around the loop over the tickers, not in it,
\* and the exception of one check ends the sweep
check_failed_ends_sweep ==
    /\ g_pc = "sweep"
    /\ g_i <= Len(tickers)
    /\ \E outcome \in upstream.database \ {"ok"} :
        /\ g_error' = outcome
        /\ g_pc' = IF except_Exception(outcome) THEN "sleep" ELSE "raised"
        /\ UNCHANGED g_i
    /\ UNCHANGED <<market_snapshots, running, upstream, latest, avars, pvars, lvars, tickers, gaps,
                   filled>>

\* check_and_fill_gaps raises for the next ticker of the sweep (its query
\* fails): `except Exception` in the loop of _check_all_tickers logs and goes
\* on with the next ticker; what it does not catch meets `except Exception`
\* of run_periodic_check
check_failed ==
    /\ g_pc = "sweep"
    /\ g_i <= Len(tickers)
    /\ \E outcome \in upstream.database \ {"ok"} :
        /\ g_error' = outcome
        /\ IF except_Exception(outcome)
           THEN /\ g_i' = g_i + 1
                /\ UNCHANGED g_pc
           ELSE /\ g_pc' = "raised"
                /\ UNCHANGED g_i
    /\ UNCHANGED <<market_snapshots, running, upstream, latest, avars, pvars, lvars, tickers, gaps,
                   filled>>

\* the sweep is over: run_periodic_check goes to sleep
sweep_done ==
    /\ g_pc = "sweep"
    /\ g_i > Len(tickers)
    /\ g_pc' = "sleep"
    /\ tickers' = <<>>
    /\ g_i' = 0
    /\ gaps' = <<>>
    /\ UNCHANGED <<market_snapshots, running, upstream, latest, avars, pvars, lvars, filled, g_error>>

GapFillerNext == check_all_tickers \/ check_and_fill_gaps \/ check_failed \/ sweep_done

\* ---------------------------------- MarketRepository.get_latest_by_ticker
\* WHERE ticker = :ticker
latest_query(rows, ticker) == {i \in DOMAIN rows : rows[i].ticker = ticker}

\* a plausible slip: the ORDER BY is ascending
order_by_timestamp_asc(rows, idx) ==
    {i \in idx : \A j \in idx : rows[i].timestamp <= rows[j].timestamp}

\* ORDER BY timestamp DESC LIMIT 1: the rows that may come first (rows of
\* equal timestamp come in an order the database chooses)
order_by_desc_timestamp(rows, idx) ==
    {i \in idx : \A j \in idx : rows[i].timestamp >= rows[j].timestamp}

NoRow == MarketSnapshot(NoTicker, 0, POLL, None, None)

\* what the query of get_latest_by_ticker may return through
\* scalar_one_or_none: None, or the row that comes first
latest_results(rows, ticker) ==
    LET first == order_by_desc_timestamp(rows, latest_query(rows, ticker))
    IN IF first = {}
       THEN {[found |-> FALSE, row |-> NoRow]}
       ELSE {[found |-> TRUE, row |-> rows[i]] : i \in first}

\* MarketRepository.get_latest_by_ticker, called for any ticker
get_latest_by_ticker ==
    /\ \E ticker \in Tickers :
        \E result \in latest_results(market_snapshots, ticker) :
            latest' = [ticker |-> ticker, found |-> result.found, row |-> result.row]
    /\ UNCHANGED <<market_snapshots, running, upstream, pvars, lvars, gvars, avars>>

\* ----------------------------------------------------- account API (api/v1)
\* The single user of the API ("default"), the key it authenticates with and
\* the positions the exchange may report for it: contracts of a ticker bought
\* on one side at 50 cents and now quoted at 55.
NoKey == "<none>"
ApiKey == "key"
Sides == {"YES", "NO"}
PositionsData == [ticker : Tickers, side : Sides, quantity : {10},
                  avg_entry_price : {50}, current_price : {55}]

\* the lists get_positions may return: no ticker is listed twice
PositionLists ==
    {q \in SeqsUpTo(PositionsData, Cardinality(Tickers)) :
        \A i, j \in DOMAIN q : q[i].ticker = q[j].ticker => i = j}

\* PositionState.unrealized_pnl, in cents
unrealized_pnl(pos) ==
    IF pos.side = "YES"
    THEN (pos.current_price - pos.avg_entry_price) * pos.quantity
    ELSE (pos.avg_entry_price - pos.current_price) * pos.quantity

\* PositionTracker.update_position for each position of the list in turn:
\* `self._positions[ticker] = position`, written through to position_cache
RECURSIVE update_position(_, _)
update_position(positions, data) ==
    IF data = <<>> THEN positions
    ELSE LET pos == Head(data)
             updated == [t \in DOMAIN positions \cup {pos.ticker} |->
                            IF t = pos.ticker THEN pos ELSE positions[t]]
         IN update_position(updated, Tail(data))

\* PositionTracker.get_total_unrealized_pnl: the sum over self._positions
RECURSIVE get_total_unrealized_pnl(_)
get_total_unrealized_pnl(positions) ==
    IF DOMAIN positions = {} THEN 0
    ELSE LET t == CHOOSE t \in DOMAIN positions : TRUE
             others == [u \in DOMAIN positions \ {t} |-> positions[u]]
         IN unrealized_pnl(positions[t]) + get_total_unrealized_pnl(others)

\* the Position schema built from a PositionState
Position(pos) ==
    [ticker |-> pos.ticker, side |-> pos.side, quantity |-> pos.quantity,
     avg_entry_price |-> pos.avg_entry_price, current_price |-> pos.current_price,
     unrealized_pnl |-> unrealized_pnl(pos)]

\* the body of a response of GET /account/portfolio, or of the HTTPException
\* that replaces it
Portfolio(positions, total_unrealized_pnl) ==
    [status |-> 200, positions |-> positions,
     total_unrealized_pnl |-> total_unrealized_pnl, num_positions |-> Len(positions)]
HTTPException(status_code) ==
    [status |-> status_code, positions |-> <<>>, total_unrealized_pnl |-> 0,
     num_positions |-> 0]
NoPositions == [t \in {} |-> 0]

\* POST /account/authenticate: verify the key with the exchange, store it,
\* issue a token (401 and no change when the key is not valid)
authenticate ==
    /\ \E is_valid \in BOOLEAN :
        IF is_valid
        THEN /\ user_credentials' = ApiKey
             /\ a_session' = "authenticated"
        ELSE UNCHANGED <<user_credentials, a_session>>
    /\ UNCHANGED <<market_snapshots, running, upstream, latest, pvars, lvars, gvars,
                   position_cache, a_pc, positions_data, portfolio>>

\* GET /account/portfolio with a valid token, up to the end of the awaits on
\* the exchange: 401 without stored credentials, otherwise get_balance and
\* get_positions, whose errors end the request with 401 or 500
get_portfolio ==
    /\ a_session # "none"
    /\ a_pc = "idle"
    /\ IF user_credentials = NoKey
       THEN /\ portfolio' = HTTPException(401)
            /\ UNCHANGED <<a_pc, positions_data>>
       ELSE \E outcome \in {"ok", "AuthenticationError", "KalshiAPIError"} :
              \E data \in PositionLists :
                IF outcome = "ok"
                THEN /\ a_pc' = "fetched"
                     /\ positions_data' = data
                     /\ UNCHANGED portfolio
                ELSE /\ data = <<>>
                     /\ portfolio' = HTTPException(IF outcome = "AuthenticationError"
                                                   THEN 401 ELSE 500)
                     /\ UNCHANGED <<a_pc, positions_data>>
    /\ UNCHANGED <<market_snapshots, running, upstream, latest, pvars, lvars, gvars,
                   user_credentials, position_cache, a_session>>

\* the rest of get_portfolio: load_positions, update_position for every
\* fetched position (each committed), the response with its totals
portfolio_response ==
    /\ a_pc = "fetched"
    /\ LET loaded == position_cache
           tracked == update_position(loaded, positions_data)
           positions == [k \in DOMAIN positions_data |-> Position(positions_data[k])]
       IN /\ position_cache' = tracked
          /\ portfolio' = Portfolio(positions, get_total_unrealized_pnl(tracked))
    /\ a_pc' = "idle"
    /\ positions_data' = <<>>
    /\ UNCHANGED <<market_snapshots, running, upstream, latest, pvars, lvars, gvars,
                   user_credentials, a_session>>

\* DELETE /account/logout with a valid token: delete_credentials (committed),
\* then clear_all_positions (committed); an error of either ends it with 500
logout ==
    /\ a_session # "none"
    /\ \E deleted, cleared \in upstream.database :
        IF deleted # "ok"
        THEN UNCHANGED <<user_credentials, position_cache, a_session>>
        ELSE /\ user_credentials' = NoKey
             /\ IF cleared # "ok"
                THEN UNCHANGED <<position_cache, a_session>>
                ELSE /\ position_cache' = NoPositions
                     /\ a_session' = "logged_out"
    /\ UNCHANGED <<market_snapshots, running, upstream, latest, pvars, lvars, gvars,
                   a_pc, positions_data, portfolio>>

AccountNext == authenticate \/ get_portfolio \/ portfolio_response \/ logout

PollerNext == run \/ request \/ poll_record \/ poll_commit \/ poll_sleep

\* the state after MarketPoller() and GapFiller() are constructed
Start ==
    /\ market_snapshots = <<>>
    /\ running = FALSE
    /\ p_pc = "init"
    /\ responses = <<>>
    /\ p_outcome = "none"
    /\ markets = <<>>
    /\ p_i = 0
    /\ p_session = <<>>
    /\ p_polls = 0
    /\ p_wait = 0
    /\ l_pc = "init"
    /\ ws = FALSE
    /\ subscriptions = <<>>
    /\ attempts = 0
    /\ sent = <<>>
    /\ message = NoMessage
    /\ l_connects = 0
    /\ l_frames = 0
    /\ was_active = <<>>
    /\ last_frame = "none"
    /\ l_error = "none"
    /\ g_pc = "init"
    /\ tickers = <<>>
    /\ g_i = 0
    /\ gaps = <<>>
    /\ filled = None
    /\ g_error = "none"
    /\ latest = [ticker |-> NoTicker, found |-> FALSE, row |-> NoRow]
    /\ user_credentials = NoKey
    /\ position_cache = NoPositions
    /\ a_pc = "idle"
    /\ positions_data = <<>>
    /\ portfolio = HTTPException(0)
    /\ a_session = "none"

\* what utcnow() returns while the tasks run: the runs checked here are over
\* within one instant (tables of several instants are those of SpecLatest)
Clock == {1}

\* outcomes of a query of the gap filler
Database == {"ok", "OperationalError"}

\* everything the upstream API, the feed, the clock and the database can
\* produce within the bounds
Upstream ==
    [responses |-> Responses, pages |-> Pages, handshakes |-> Handshakes, frames |-> Frames,
     clock |-> Clock, database |-> Database]

\* the poller alone
InitPoller == Start /\ upstream = Upstream
PollerSteps == PollerNext \/ stop
SpecPoller == InitPoller /\ [][PollerSteps]_vars

\* the poller under the scheduling the event loop gives: its task runs when
\* it is ready, every await on the upstream API and on the database returns,
\* the sleep ends
FairPoller == SpecPoller /\ WF_vars(PollerNext)

\* the poller beside a reader of the table: get_latest_by_ticker is the query
\* that reads POLL rows (the listener's index and detect_gaps read WEBSOCKET
\* rows only)
ReadSteps == PollerNext \/ stop \/ get_latest_by_ticker
InitReads == Start /\ upstream = Upstream
SpecReads == InitReads /\ [][ReadSteps]_vars

\* the listener, beside a poller that has been started
InitListener == Start /\ upstream = Upstream
ListenerSteps == run \/ stop \/ ListenerNext
SpecListener == InitListener /\ [][ListenerSteps]_vars

\* the gap filler, beside a listener whose feed numbers every ticker message
GapFrames == [type : {"ticker"}, ticker : Tickers, seq : Seqs,
              timestamp : {IsoTime}, yes_price : Quotes]
InitGaps ==
    /\ Start
    /\ upstream = [responses |-> Responses, pages |-> Pages,
                   handshakes |-> {"ok"}, frames |-> GapFrames,
                   clock |-> Clock, database |-> Database]
GapSteps == run \/ ListenerNext \/ GapFillerNext
SpecGaps == InitGaps /\ [][GapSteps]_vars

\* the three tasks together
Init ==
    /\ Start
    /\ upstream = [responses |-> {"200", "500"},
                   pages |-> SeqsUpTo(Records, 1),
                   handshakes |-> {"ok"},
                   frames |-> Undecodable \cup
                              [type : {"ticker"}, ticker : {"A"}, seq : 1 .. 2,
                               timestamp : {IsoTime}, yes_price : Quotes],
                   clock |-> Clock, database |-> Database]
Next == PollerNext \/ ListenerNext \/ GapFillerNext \/ stop
Spec == Init /\ [][Next]_vars

\* the three tasks together, with every kind of failure and little data: a
\* page of one record that can or cannot be stored, one ticker message and
\* its retransmission, a frame that is not an object
InitErrors ==
    /\ Start
    /\ upstream = [responses |-> {"200", "500"},
                   pages |-> {<<>>, <<[ticker |-> "A", yes_bid |-> None]>>},
                   handshakes |-> Handshakes,
                   frames |-> NonObjects \cup
                              [type : {"ticker"}, ticker : {"A"}, seq : {1},
                               timestamp : {IsoTime}, yes_price : Quotes],
                   clock |-> Clock, database |-> Database]
SpecErrors == InitErrors /\ [][Next]_vars

\* main(): asyncio.gather(poller.run(), poller.listen_websocket()). stop() is
\* called only once gather has been left, so no step of the two tasks follows
\* it; the feed sends ticker messages with and without a sequence number
MainFrames == [type : {"ticker"}, ticker : {"A"}, seq : {1, None},
               timestamp : {IsoTime}, yes_price : Quotes]
InitMain ==
    /\ Start
    /\ upstream = [responses |-> {"200", "500"},
                   pages |-> SeqsUpTo(Records, 1),
                   handshakes |-> Handshakes,
                   frames |-> MainFrames,
                   clock |-> Clock, database |-> Database]
MainSteps == PollerNext \/ ListenerNext
SpecMain == InitMain /\ [][MainSteps]_vars

\* MarketRepository.create_snapshot called by any writer, with any ticker,
\* timestamp and source
create_snapshot ==
    /\ Len(market_snapshots) < MaxRows
    /\ \E ticker \in Tickers, timestamp \in Instants, source \in DataSource, price \in Quotes :
        LET row == MarketSnapshot(ticker, timestamp, source, None, price)
        IN /\ create(<<>>, row) = "ok"
           /\ market_snapshots' = Append(market_snapshots, row)
    /\ UNCHANGED <<running, upstream, latest, avars, pvars, lvars, gvars>>

\* MarketRepository.create_snapshot called with a sequence number, by a
\* writer of any source (the listener, or a backfill that records the
\* sequence it recovers)
create_snapshot_with_sequence ==
    /\ Len(market_snapshots) < MaxRows
    /\ \E ticker \in Tickers, source \in DataSource, sequence \in 1 .. MaxSeq, price \in Quotes :
        LET row == MarketSnapshot(ticker, 1, source, sequence, price)
        IN /\ create(<<>>, row) = "ok"
           /\ market_snapshots' = Append(market_snapshots, row)
    /\ UNCHANGED <<running, upstream, latest, avars, pvars, lvars, gvars>>

\* the gap filler over tables written in any order by writers of any source
TableSteps == create_snapshot \/ create_snapshot_with_sequence \/ GapFillerNext
InitTable == Start /\ upstream = Upstream
SpecTable == InitTable /\ [][TableSteps]_vars

\* the queries of the repository over tables written in any order
LatestSteps == create_snapshot \/ get_latest_by_ticker
InitLatest == Start /\ upstream = Upstream
SpecLatest == InitLatest /\ [][LatestSteps]_vars

\* the account API: requests of the one user, served concurrently
InitAccount == Start /\ upstream = Upstream
SpecAccount == InitAccount /\ [][AccountNext]_vars

\* the gap filler under the scheduling the event loop gives: a sweep that is
\* due is run, a message handed to the listener is saved, a pause ends; what
\* the feed delivers and when the connection ends is up to the feed
FairGaps ==
    /\ SpecGaps
    /\ WF_vars(GapFillerNext)
    /\ WF_vars(run)
    /\ WF_vars(listen_websocket \/ connect \/ subscribe \/ save_websocket_snapshot \/ listen_pause)

\* the listener under the scheduling the event loop gives: a task that is
\* ready runs (the start of the tasks, a handshake attempt, the subscription,
\* the save of a message in flight, the end of a pause); what the feed
\* delivers and when the connection ends is up to the feed
FairListener ==
    /\ SpecListener
    /\ WF_vars(run)
    /\ WF_vars(listen_websocket \/ connect \/ subscribe \/ save_websocket_snapshot \/ listen_pause)

\* ------------------------------------------------------------------ claims
\* the rows a step appends to the table
Appended == SubSeq(market_snapshots', Len(market_snapshots) + 1, Len(market_snapshots'))

\* rows without the instant at which they were captured
Fields(rows) ==
    [k \in DOMAIN rows |->
        [ticker |-> rows[k].ticker, source |-> rows[k].source,
         sequence |-> rows[k].sequence, yes_price |-> rows[k].yes_price]]

\* is a WEBSOCKET row with this ticker and sequence number stored
Stored(ticker, sequence) ==
    \E i \in DOMAIN market_snapshots :
        /\ market_snapshots[i].source = WEBSOCKET
        /\ market_snapshots[i].ticker = ticker
        /\ market_snapshots[i].sequence = sequence

NoDuplicateSequence ==
    \A i, j \in DOMAIN market_snapshots :
        ( /\ i # j
          /\ market_snapshots[i].source = WEBSOCKET
          /\ market_snapshots[j].source = WEBSOCKET
          /\ market_snapshots[i].ticker = market_snapshots[j].ticker
          /\ market_snapshots[i].sequence # None )
        => market_snapshots[i].sequence # market_snapshots[j].sequence

\* C1: under every interleaving of the poller, the listener and the gap
\* filler, no two WEBSOCKET rows of the table have the same ticker and the
\* same sequence number, and the save of a ticker message whose (ticker, seq)
\* is already stored adds no row.
C1_UniqueSequence ==
    [][ /\ NoDuplicateSequence'
        /\ ( /\ l_pc = "save"
             /\ l_pc' = "listen"
             /\ message.seq # None
             /\ Stored(message.ticker, message.seq) )
           => market_snapshots' = market_snapshots ]_vars

\* a duplicate was offered and refused while the other two tasks had written
\* or swept
C1_Witness ==
    /\ l_error = "IntegrityError"
    /\ last_frame = "failed"
    /\ \E i \in DOMAIN market_snapshots : market_snapshots[i].source = POLL
    /\ g_pc # "init"

\* the WEBSOCKET sequence numbers stored for a ticker
StoredSequences(ticker) ==
    {market_snapshots[i].sequence :
        i \in {j \in DOMAIN market_snapshots :
                /\ market_snapshots[j].ticker = ticker
                /\ market_snapshots[j].source = WEBSOCKET}} \ {None}

SetMin(S) == CHOOSE x \in S : \A y \in S : x <= y
SetMax(S) == CHOOSE x \in S : \A y \in S : x >= y

\* C2: for every ticker, detect_gaps returns in ascending order, without
\* repetition, exactly the integers between the smallest and the largest
\* stored WEBSOCKET sequence number that are not stored, and the empty list
\* when fewer than two sequence numbers are stored.
C2_DetectGaps ==
    \A t \in Tickers :
        LET S == StoredSequences(t)
            g == detect_gaps(t)
        IN /\ \A k \in 1 .. Len(g) - 1 : g[k] < g[k + 1]
           /\ {g[k] : k \in DOMAIN g} =
                IF S = {} THEN {} ELSE (SetMin(S) .. SetMax(S)) \ S
           /\ Cardinality(S) < 2 => g = <<>>

\* the sweep has been handed a list of several gaps
C2_Witness ==
    /\ g_pc = "sweep"
    /\ Len(gaps) >= 2
    /\ \E t \in Tickers : gaps = detect_gaps(t) /\ Cardinality(StoredSequences(t)) >= 2

\* is a sequence number reported as missing for a ticker
Missing(t, s) ==
    LET g == detect_gaps(t)
    IN \E k \in DOMAIN g : g[k] = s

\* the sequence numbers detect_gaps reports for a ticker over given rows
GapSet(rows, t) ==
    LET g == detect_gaps_in(rows, t)
    IN {g[k] : k \in DOMAIN g}

C4_NoFabrication ==
    [][ \A t \in Tickers :
            (g_pc = "sweep" /\ g_i' = g_i + 1 /\ g_error' = "none" /\ tickers[g_i] = t)
            => /\ filled' = 0
               /\ g_pc' = "sweep"
               /\ market_snapshots' = market_snapshots
               /\ gaps' = detect_gaps(t)
               /\ detect_gaps_in(market_snapshots', t) = detect_gaps(t) ]_vars

\* a ticker with more gaps than the cap of one cycle has been checked
C4_Witness ==
    /\ g_pc = "sweep"
    /\ g_i > 1
    /\ filled = 0
    /\ Len(gaps) > max_backfill
    /\ gaps = detect_gaps(tickers[g_i - 1])

\* C5: when the message loop of a connection runs, every subscription that
\* was active when the previous connection ended has been sent on this
\* connection.
C5_Resubscribed ==
    l_pc \in {"listen", "save"} =>
        \A k \in DOMAIN was_active : \E n \in DOMAIN sent : sent[n] = was_active[k]

\* a message of the second connection is being processed after a drop of the
\* first, on which the ticker subscription was active
C5_Witness ==
    /\ l_pc = "save"
    /\ l_connects >= 2
    /\ l_error = "ConnectionClosed"
    /\ was_active = <<TickerChannel>>

\* C6: an undecodable frame leaves the table and the message loop as they
\* are, and the ticker message that follows it on the same connection, when
\* it is valid (it has a ticker, its price and timestamp parse) and its
\* (ticker, seq) is not stored yet, is saved as exactly one row.
C6_UndecodableSkipped ==
    [][ /\ ( /\ l_pc = "listen"
             /\ l_frames' = l_frames + 1
             /\ message' = NoMessage
             /\ last_frame' = "undecodable" )
           => /\ market_snapshots' = market_snapshots
              /\ l_pc' = "listen"
              /\ ws'
        /\ ( /\ l_pc = "save"
             /\ l_pc' = "listen"
             /\ last_frame = "undecodable"
             /\ message.ticker \in Tickers
             /\ parse_raises(message) = "none"
             /\ ~ (message.seq # None /\ Stored(message.ticker, message.seq)) )
           => /\ \E now \in upstream.clock : Appended = <<websocket_row(message, now)>>
              /\ ws' ]_vars

\* two frames were delivered on the first connection: the first was not JSON,
\* the second was saved, and the table holds one row
C6_Witness ==
    /\ l_connects = 1
    /\ l_frames = 2
    /\ l_error = "JSONDecodeError"
    /\ last_frame = "saved"
    /\ Len(market_snapshots) = 1
    /\ l_pc = "listen"

\* has a record of the page a ticker
HasTicker(market) == market.ticker \in Tickers

\* can the row of a record be inserted
Storable(market) == market.yes_bid # None

RECURSIVE RowsOf(_)
RowsOf(page) ==
    IF page = <<>> THEN <<>>
    ELSE (IF HasTicker(Head(page))
          THEN <<[ticker |-> Head(page).ticker, source |-> POLL, sequence |-> None,
                  yes_price |-> Head(page).yes_bid * 100]>>
          ELSE <<>>) \o RowsOf(Tail(page))

\* the step that ends the work of poll_markets on a page
PollEnds == p_pc = "batch" /\ p_pc' = "sleep"

\* C7, as claimed: when the append of one record of a page fails, the rows
\* of all the other records of the page that have a ticker are persisted.
C7_Original ==
    [][ PollEnds =>
            Fields(Appended) = RowsOf(SelectSeq(markets, Storable)) ]_vars

RequestEnded == p_outcome \in {"returned", "KalshiAPIError"}

\* C9, as claimed: a request whose first attempt gets an HTTP error status
\* is attempted again, and when the second attempt succeeds the request
\* returns after exactly two attempts.
C9_Original ==
    (RequestEnded /\ responses # <<>> /\ responses[1] = "500")
    => /\ Len(responses) >= 2
       /\ responses[2] = "200" => (p_outcome = "returned" /\ Len(responses) = 2)

\* C10, as claimed: a request whose attempts all get an HTTP error status
\* ends after exactly 3 attempts, with KalshiAPIError.
C10_Original ==
    (RequestEnded /\ \A k \in DOMAIN responses : responses[k] = "500")
    => /\ Len(responses) = request_stop_after_attempt
       /\ p_outcome = "KalshiAPIError"

\* is the (ticker, seq) of the message in flight already stored
Duplicate == message.seq # None /\ Stored(message.ticker, message.seq)

\* the step in which _save_websocket_snapshot handles the message in flight
Saves == l_pc = "save" /\ message' = NoMessage

\* C11: the save of a ticker message whose (ticker, seq) is already stored
\* raises nothing into the message loop (the loop goes on, on the same
\* connection) and leaves the table as it was, and the ticker message that
\* follows it on the connection, when well formed and not stored yet, is
\* appended.
C11_DuplicateAbsorbed ==
    [][ /\ (Saves /\ Duplicate)
           => /\ market_snapshots' = market_snapshots
              /\ l_pc' = "listen"
              /\ ws'
              /\ last_frame' \in {"failed", "dropped"}
        /\ ( /\ Saves
             /\ last_frame = "failed"
             /\ message.ticker \in Tickers
             /\ parse_raises(message) = "none"
             /\ ~ Duplicate )
           => /\ \E now \in upstream.clock : Appended = <<websocket_row(message, now)>>
              /\ l_pc' = "listen"
              /\ ws' ]_vars

\* on one connection a message was saved, its duplicate was refused, and a
\* third message was saved after it
C11_Witness ==
    /\ l_connects = 1
    /\ l_frames = 3
    /\ l_error = "IntegrityError"
    /\ last_frame = "saved"
    /\ Len(market_snapshots) = 2
    /\ l_pc = "listen"
    /\ ws

\* C12: on a connection a frame is taken from the feed only when no message
\* is in flight, the message handed to the save is the frame just received,
\* and the step that ends the save of a message (with a commit or with a
\* failure) appends nothing but the row of that message, after all rows that
\* were there, before the next frame is taken; no other step of the listener
\* writes; so the rows of a connection are stored in the order in which
\* their messages were received.
C12_InOrder ==
    [][ /\ l_frames' # l_frames
           => /\ l_pc = "listen"
              /\ message = NoMessage
              /\ market_snapshots' = market_snapshots
        /\ (message' # message /\ message' # NoMessage)
           => /\ l_frames' = l_frames + 1
              /\ l_pc' = "save"
        /\ Saves
           => /\ l_pc' # "save"
              /\ l_frames' = l_frames
              /\ SubSeq(market_snapshots', 1, Len(market_snapshots)) = market_snapshots
              /\ \/ Appended = <<>>
                 \/ \E now \in upstream.clock : Appended = <<websocket_row(message, now)>>
        /\ ~ Saves => market_snapshots' = market_snapshots ]_vars

\* two messages of one connection are stored in the order in which they were
\* received, which is not the order of their sequence numbers
C12_Witness ==
    /\ l_connects = 1
    /\ l_frames = 2
    /\ l_pc = "listen"
    /\ Len(market_snapshots) = 2
    /\ market_snapshots[1].ticker = market_snapshots[2].ticker
    /\ market_snapshots[1].sequence = 2
    /\ market_snapshots[2].sequence = 1

\* C13, as claimed: once stop() has been called, listen_websocket returns.
C13_Original == (~ running /\ p_pc # "init") ~> (l_pc = "done")

\* C14: in every step of the poller, the listener and the gap filler the
\* table keeps all its rows, each with every field as it was, in its place;
\* a step only adds rows after them.
C14_AppendOnly ==
    [][ /\ Len(market_snapshots') >= Len(market_snapshots)
        /\ SubSeq(market_snapshots', 1, Len(market_snapshots)) = market_snapshots ]_vars

\* two poll cycles have committed, the listener has stored a message and
\* offered a duplicate, and the sweep has checked a ticker
C14_Witness ==
    /\ p_polls = 2
    /\ Len(SelectSeq(market_snapshots, LAMBDA row : row.source = POLL)) = 2
    /\ Len(SelectSeq(market_snapshots, LAMBDA row : row.source = WEBSOCKET)) >= 1
    /\ l_error = "IntegrityError"
    /\ filled = 0

\* the rows of a ticker
RowsOfTicker(ticker) ==
    {market_snapshots[i] : i \in {j \in DOMAIN market_snapshots :
                                    market_snapshots[j].ticker = ticker}}

\* C15: for every table and every ticker, get_latest_by_ticker returns None
\* exactly when the table holds no row of the ticker, and otherwise a stored
\* row of the ticker whose timestamp no row of the ticker exceeds, whatever
\* the sources of the rows and the order in which they were appended.
C15_LatestByTicker ==
    \A ticker \in Tickers :
        \A result \in latest_results(market_snapshots, ticker) :
            /\ result.found <=> RowsOfTicker(ticker) # {}
            /\ result.found =>
                /\ result.row \in RowsOfTicker(ticker)
                /\ \A row \in RowsOfTicker(ticker) : row.timestamp <= result.row.timestamp

\* the query has returned a row that was appended before a row of the same
\* ticker, of another source and of an earlier timestamp
C15_Witness ==
    /\ latest.found
    /\ \E i, j \in DOMAIN market_snapshots :
        /\ i < j
        /\ market_snapshots[i] = latest.row
        /\ market_snapshots[j].ticker = latest.ticker
        /\ market_snapshots[j].source # latest.row.source
        /\ market_snapshots[j].timestamp < latest.row.timestamp

\* C16, as claimed: while the poller is running, the step in which a push
\* connection ends takes the listener to its fixed pause (and only the end
\* of the pause to the next connection attempt).
C16_Original ==
    [][ (running /\ ws /\ ~ ws') => l_pc' = "pause" ]_vars

\* the step that ends a poll cycle whose fetch failed
FetchFails == p_pc = "request" /\ p_pc' \notin {"request", "batch"}

\* the step that ends a poll cycle with the commit of its batch
CycleCommits == p_pc = "batch" /\ p_i > Len(markets) /\ p_pc' # "batch"

\* C17: a poll cycle whose fetch fails appends nothing and leaves the poller
\* in the sleep of run(), for the same number of seconds as the cycle that
\* commits its batch; only a cycle whose fetch returned writes; and while
\* running, the poller leaves the sleep only to start the next cycle.
C17_FailedCycle ==
    [][ /\ FetchFails
           => /\ market_snapshots' = market_snapshots
              /\ p_pc' = "sleep"
              /\ p_wait' = kalshi_poll_interval_seconds
        /\ CycleCommits
           => /\ p_pc' = "sleep"
              /\ p_wait' = kalshi_poll_interval_seconds
        /\ market_snapshots' # market_snapshots => p_outcome = "returned"
        /\ (p_pc = "sleep" /\ running /\ p_pc' # "sleep")
           => /\ p_pc' = "request"
              /\ p_polls' = p_polls + 1 ]_vars

\* the second cycle has failed in its fetch after the first had committed
\* rows, the poller sleeps the fixed interval and is still running
C17_Witness ==
    /\ p_pc = "sleep"
    /\ running
    /\ p_polls = 2
    /\ p_outcome = "KalshiAPIError"
    /\ p_wait = kalshi_poll_interval_seconds
    /\ market_snapshots # <<>>

\* the step that ends a poll cycle with an error of its fetch or of an append
PollFails == p_pc \in {"request", "batch"} /\ p_pc' \notin {"request", "batch"} /\ ~ CycleCommits

\* C18: no task ever ends with an exception. A failed fetch or append leaves
\* the poller in the sleep before its next cycle; a handshake that fails for
\* good or an error in the message loop leaves the listener in the pause
\* before its next connection, and the pause ends with the next connection
\* while running; a failure of the save of a message leaves the message loop
\* running; a failed ticker query leaves the gap filler in the sleep before
\* its next sweep and a failed check goes on with the next ticker; and a
\* step of one task changes nothing of another task.
C18_ErrorsAbsorbed ==
    [][ /\ "raised" \notin {p_pc', l_pc', g_pc'}
        /\ PollFails => p_pc' = "sleep"
        /\ (l_pc = "connect" /\ l_pc' \notin {"connect", "subscribe"}) => l_pc' = "pause"
        /\ (l_pc \in {"listen", "save"} /\ ws /\ ~ ws') => l_pc' \in {"pause", "connect", "done"}
        /\ (Saves /\ last_frame' \in {"failed", "dropped"}) => (l_pc' = "listen" /\ ws')
        /\ (l_pc = "pause" /\ l_pc' # "pause") => l_pc' = IF running THEN "connect" ELSE "done"
        /\ (g_pc \in {"init", "sleep"} /\ g_error' # "none" /\ g_error' # g_error)
           => g_pc' = "sleep"
        /\ (g_pc = "sweep" /\ g_i <= Len(tickers) /\ g_error' # "none" /\ gvars' # gvars)
           => (g_pc' = "sweep" /\ g_i' = g_i + 1)
        /\ pvars' # pvars => (lvars' = lvars /\ gvars' = gvars)
        /\ lvars' # lvars => (pvars' = pvars /\ gvars' = gvars)
        /\ gvars' # gvars => (pvars' = pvars /\ lvars' = lvars) ]_vars

\* the poller sleeps after a failed fetch, the listener is in the message
\* loop of a connection it made after the handshake had failed for good, and
\* the sweep goes on after the check of a ticker has failed
C18_Witness ==
    /\ running
    /\ p_pc = "sleep"
    /\ p_outcome = "KalshiAPIError"
    /\ l_pc = "listen"
    /\ l_connects = 2
    /\ l_error = "RetryError"
    /\ g_pc = "sweep"
    /\ g_error = "OperationalError"


\* the listen step that receives a frame which decodes to something that is
\* not a JSON object (a list, a number, a string, null)
NonObjectReceived ==
    /\ l_pc = "listen"
    /\ l_frames' # l_frames
    /\ l_pc' # "save"
    /\ last_frame' = "raised"

\* the save step of a ticker message whose ticker is missing or whose
\* timestamp or price has a wrong form
MalformedHandled == Saves /\ last_frame' \in {"no ticker", "dropped"}

\* C19, as claimed: a frame that decodes but is malformed (not an object, no
\* ticker, a timestamp or price of a wrong form) stores no row and leaves the
\* message loop running on the same connection, ready for the next frame.
C19_Original ==
    [][ (NonObjectReceived \/ MalformedHandled)
        => (market_snapshots' = market_snapshots /\ ws' /\ l_pc' = "listen") ]_vars


\* a decoded ticker message whose ticker is present and not empty, whose
\* price is a number and whose timestamp is absent or an ISO-8601 string
WellFormed(msg) ==
    /\ msg.ticker \notin {NoTicker, ""}
    /\ msg.yes_price # NotDecimal
    /\ msg.timestamp \in {NoTimestamp, IsoTime}

\* the save step calls create_snapshot (the append succeeds or is refused)
AppendAttempted == Saves /\ last_frame' \in {"saved", "failed"}

\* the listen step that receives a decoded frame of another event type
OtherTypeReceived ==
    /\ l_pc = "listen"
    /\ l_frames' # l_frames
    /\ l_pc' # "save"
    /\ last_frame' = "ignored"

\* C20, as claimed: every decoded message of event type ticker leads to
\* exactly one call of create_snapshot, and a message of another type to none.
C20_Original ==
    [][ /\ Saves => AppendAttempted
        /\ OtherTypeReceived => (l_pc' = "listen" /\ UNCHANGED <<market_snapshots, message>>)
      ]_vars

\* C20, amended: a decoded ticker message leads to exactly one call of
\* create_snapshot when it is well formed and to none when its ticker is
\* missing or empty or its price or timestamp does not parse; it is handled
\* by one save step, which adds at most the one row built from it; and only
\* ticker messages reach the save, a message of another type leaving the
\* table and the loop as they were.
C20_OneAttempt ==
    [][ /\ Saves => (AppendAttempted <=> WellFormed(message))
        /\ Saves => \/ market_snapshots' = market_snapshots
                    \/ /\ AppendAttempted
                       /\ \E now \in upstream.clock :
                            market_snapshots' = Append(market_snapshots, websocket_row(message, now))
        /\ (l_pc = "save" /\ lvars' # lvars) => (Saves /\ l_pc' # "save")
        /\ l_pc' = "save" => message'.type = "ticker"
        /\ OtherTypeReceived => (l_pc' = "listen" /\ UNCHANGED <<market_snapshots, message>>)
      ]_vars

\* on one connection a ticker message with an unparseable timestamp was
\* dropped without an append and a later well-formed one was appended
C20_Witness ==
    /\ l_pc = "listen"
    /\ ws
    /\ l_connects = 1
    /\ l_error = "ValueError"
    /\ last_frame = "saved"
    /\ Len(market_snapshots) = 1


\* C21: every row a step of the poller appends has source POLL and no
\* sequence, every row the save of a push message appends has source
\* WEBSOCKET and the seq of that message as its sequence (None when the
\* message has none), and in every state a row with a sequence has source
\* WEBSOCKET.
C21_SourceAndSequence ==
    /\ [](\A i \in DOMAIN market_snapshots :
            market_snapshots[i].sequence # None => market_snapshots[i].source = WEBSOCKET)
    /\ [][ /\ pvars' # pvars =>
                \A k \in DOMAIN Appended :
                    Appended[k].source = POLL /\ Appended[k].sequence = None
           /\ Saves =>
                \A k \in DOMAIN Appended :
                    Appended[k].source = WEBSOCKET /\ Appended[k].sequence = message.seq ]_vars

\* the table holds a row of a poll cycle, a push row with a sequence number
\* and a push row without one
C21_Witness ==
    \E i, j, k \in DOMAIN market_snapshots :
        /\ market_snapshots[i].source = POLL
        /\ market_snapshots[i].sequence = None
        /\ market_snapshots[j].source = WEBSOCKET
        /\ market_snapshots[j].sequence = 1
        /\ market_snapshots[k].source = WEBSOCKET
        /\ market_snapshots[k].sequence = None


\* C22: a sweep takes the distinct tickers that have a WEBSOCKET row, each
\* once; every step of the sweep, a check that returns as one that fails,
\* goes on to the next ticker of the same list; and the sweep ends only after
\* the last ticker.
C22_SweepChecksEveryTicker ==
    [][ /\ (g_pc \in {"init", "sleep"} /\ g_pc' = "sweep")
           => /\ {tickers'[k] : k \in DOMAIN tickers'} = websocket_tickers
              /\ Len(tickers') = Cardinality(websocket_tickers)
              /\ g_i' = 1
        /\ (g_pc = "sweep" /\ g_i <= Len(tickers) /\ gvars' # gvars)
           => /\ g_pc' = "sweep"
              /\ g_i' = g_i + 1
              /\ tickers' = tickers
        /\ (g_pc = "sweep" /\ g_pc' # "sweep") => g_i > Len(tickers) ]_vars

\* the check of the first of two tickers has failed and the sweep is at the
\* second
C22_Witness ==
    /\ g_pc = "sweep"
    /\ Len(tickers) = 2
    /\ g_i = 2
    /\ g_error = "OperationalError"


\* a handshake attempt of connect() that fails
HandshakeFails == l_pc = "connect" /\ attempts' = attempts + 1 /\ l_pc' # "subscribe"

\* C23: one connect() makes at most 5 handshake attempts. An attempt that
\* fails is followed by another only while fewer than 5 have been made; a
\* failure with a WebSocket error before the 5th attempt is retried (only an
\* error of another kind, here OSError, leaves connect() at once); and the
\* 5th failure leaves connect() with tenacity's RetryError, which
\* listen_websocket catches.
C23_ConnectBounded ==
    /\ [](attempts <= 5)
    /\ [][ HandshakeFails =>
            /\ l_pc' = "connect" => attempts' < 5
            /\ l_pc' # "connect" =>
                /\ l_pc' = "pause"
                /\ ~ ws'
                /\ \/ l_error' = "RetryError" /\ attempts' = 5
                   \/ l_error' = "OSError" ]_vars

\* five handshake attempts have failed and the listener is in its pause
C23_Witness ==
    /\ l_pc = "pause"
    /\ attempts = 5
    /\ l_error = "RetryError"
    /\ ~ ws


\* the sum of unrealized_pnl over the positions listed in a response
RECURSIVE SumListed(_)
SumListed(positions) ==
    IF positions = <<>> THEN 0
    ELSE Head(positions).unrealized_pnl + SumListed(Tail(positions))

\* C24, as claimed: in every portfolio response, whatever requests came
\* before, total_unrealized_pnl is the sum of unrealized_pnl over the listed
\* positions and num_positions is their number.
C24_Original ==
    portfolio.status = 200 =>
        /\ portfolio.total_unrealized_pnl = SumListed(portfolio.positions)
        /\ portfolio.num_positions = Len(portfolio.positions)

\* C25, as claimed: once a logout has succeeded, and until the user
\* authenticates again, no credential and no cached position of the user is
\* stored, and a portfolio request with the token is answered 401 and changes
\* neither.
C25_Original ==
    /\ [](a_session = "logged_out" =>
            (user_credentials = NoKey /\ position_cache = NoPositions))
    /\ [][ (a_session = "logged_out" /\ a_pc = "idle" /\ portfolio' # portfolio)
           => /\ portfolio' = HTTPException(401)
              /\ UNCHANGED <<user_credentials, position_cache>> ]_vars


\* stop() has been called on a poller that was started
Stopped == ~ running /\ p_pc # "init"

\* C26: once stop() has been called no poll cycle is started; the cycle in
\* flight goes on to its end, and when its last record is done its rows are
\* committed; the sleep that follows ends with the return of run(); and
\* run() does return.
C26_StopEndsPolling ==
    /\ [][ /\ Stopped => p_polls' = p_polls
           /\ (Stopped /\ p_pc \in {"request", "batch"} /\ pvars' # pvars)
              => p_pc' \in {"request", "batch", "sleep"}
           /\ (Stopped /\ p_pc = "batch" /\ p_i > Len(markets) /\ pvars' # pvars)
              => (market_snapshots' = market_snapshots \o p_session /\ p_pc' = "sleep")
           /\ (Stopped /\ p_pc = "sleep" /\ pvars' # pvars) => p_pc' = "done" ]_vars
    /\ Stopped ~> (p_pc = "done")

\* stop() was called while a cycle was in flight: rows of the batch are
\* waiting for their commit
C26_Witness ==
    /\ Stopped
    /\ p_pc = "batch"
    /\ p_session # <<>>
    /\ p_i > Len(markets)


\* C27: the first test of self.running by listen_websocket finds it True
\* and is followed by a connection attempt, and the listener does not return
\* without having called connect().
C27_ListenerFindsRunning ==
    /\ [][ (l_pc = "init" /\ l_pc' # "init")
           => (running /\ l_pc' = "connect" /\ l_connects' = 1) ]_vars
    /\ [](l_pc = "done" => l_connects >= 1)

\* the listener has taken its first step right after run() reached its first
\* await: the first connection is about to be attempted
C27_Witness ==
    /\ l_pc = "connect"
    /\ l_connects = 1
    /\ attempts = 0
    /\ p_pc = "request"
    /\ responses = <<>>
    /\ p_polls = 1


\* is this a row detect_gaps of the ticker reads
ReadByDetectGaps(row, ticker) ==
    row.ticker = ticker /\ row.source = WEBSOCKET /\ row.sequence # None

\* the rows of a table that detect_gaps of the ticker reads, in their order
RowsRead(rows, ticker) ==
    SelectSeq(rows, LAMBDA row : ReadByDetectGaps(row, ticker))

\* C28: detect_gaps of a ticker is a function of the WEBSOCKET rows of that
\* ticker that have a sequence: it returns on every table what it returns on
\* those rows alone, a step that appends only other rows (POLL or BACKFILL
\* rows, rows of another ticker, WEBSOCKET rows without a sequence) leaves
\* its result as it was, and the gap list a check works on is that result.
C28_DetectGapsFrame ==
    /\ [](\A t \in Tickers :
            detect_gaps(t) = detect_gaps_in(RowsRead(market_snapshots, t), t))
    /\ [][ /\ \A t \in Tickers :
                (\A k \in DOMAIN Appended : ~ ReadByDetectGaps(Appended[k], t))
                => detect_gaps_in(market_snapshots', t) = detect_gaps(t)
           /\ (g_pc = "sweep" /\ g_i' = g_i + 1 /\ g_error' = "none")
              => gaps' = detect_gaps_in(RowsRead(market_snapshots, tickers[g_i]), tickers[g_i])
         ]_vars

\* a check has found the gap 2 of a ticker whose push rows carry 1 and 3,
\* although a BACKFILL row of the ticker carries the sequence 2
C28_Witness ==
    /\ g_pc = "sweep"
    /\ g_i > 1
    /\ g_error = "none"
    /\ gaps = <<2>>
    /\ \E i \in DOMAIN market_snapshots :
        /\ market_snapshots[i].ticker = tickers[g_i - 1]
        /\ market_snapshots[i].source = BACKFILL
        /\ market_snapshots[i].sequence = 2


\* C29: the save of a well-formed ticker message without a seq field appends
\* one WEBSOCKET row whose sequence is None, whatever the table holds, a row
\* of the same ticker without a sequence included.
C29_SeqlessStoredAgain ==
    [][ (Saves /\ WellFormed(message) /\ message.seq = None)
        => /\ last_frame' = "saved"
           /\ \E now \in upstream.clock : Appended = <<websocket_row(message, now)>>
           /\ Appended[1].source = WEBSOCKET
           /\ Appended[1].sequence = None ]_vars

\* a ticker message without seq and its retransmission are both stored
C29_Witness ==
    \E i, j \in DOMAIN market_snapshots :
        /\ i < j
        /\ market_snapshots[i] = market_snapshots[j]
        /\ market_snapshots[i].source = WEBSOCKET
        /\ market_snapshots[i].sequence = None


\* C30: a step of the poller changes the table only when it commits after
\* the last record of the page, and then by all the rows of the batch at
\* once, one for each record with a ticker; a query that runs at any point
\* of the cycle reads committed rows only, and finds no row of a ticker
\* whose only rows are those of the batch in flight.
C30_BatchAtomic ==
    [][ /\ pvars' # pvars =>
            \/ market_snapshots' = market_snapshots
            \/ /\ CycleCommits
               /\ Appended = p_session
               /\ Fields(Appended) = RowsOf(markets)
        /\ latest' # latest =>
            /\ latest'.found <=> RowsOfTicker(latest'.ticker) # {}
            /\ latest'.found => latest'.row \in RowsOfTicker(latest'.ticker) ]_vars

\* a query for a ticker ran while the row of that ticker was flushed in the
\* session of a batch in flight, and found nothing
C30_Witness ==
    /\ p_pc = "batch"
    /\ p_i <= Len(markets)
    /\ \E k \in DOMAIN p_session : p_session[k].ticker = latest.ticker
    /\ ~ latest.found
    /\ RowsOfTicker(latest.ticker) = {}

====
